---------------------------- MODULE Spec2Model ----------------------------
(***************************************************************************)
(* A model of two algorithmic cores of the repository:                     *)
(*                                                                         *)
(*  - TreeVAE's Gaussian message passing over a rooted tree with a prior   *)
(*    root (src/scvi/models/treevae.py), as a state machine whose steps    *)
(*    are the entries, loop iterations and returns of the recursive        *)
(*    perform_message_passing and the calls around it;                     *)
(*  - DEMixin.get_population_expression's chunking of a subpopulation and  *)
(*    the weighting and resampling of _inference_loop on one chunk         *)
(*    (src/scvi/model/base/_demixin.py).                                   *)
(*                                                                         *)
(* Floating-point values are modelled by exact rationals <<num, den>> in   *)
(* lowest terms; rounding is not modelled.  A log-normalizer               *)
(*     -0.5*k*d*log(2*pi) - 0.5*d*log(t) - 0.5*q                           *)
(* is the record [k, t, q] (k an integer, t and q rationals), so that      *)
(* adding two of them adds k, multiplies t and adds q.                     *)
(***************************************************************************)
EXTENDS Integers, Sequences, FiniteSets, TLC

(***************************************************************************)
(* Bounds of the model.                                                    *)
(***************************************************************************)
\* nodes of the largest tree, prior root included
MaxNodes == 5
\* top-level calls (forward, posterior_predictive_density, ...) per behaviour
MaxCalls == 2
\* latent dimension (n_latent, z.shape[1])
n_latent == 2
\* the largest numerator and denominator of a rational the model keeps
\* exact: beyond it a number is Huge, as the products of two such integers
\* must stay within TLC's 32-bit integers
MaxInt == 30000
\* one node on its own: its incoming messages, the largest mean and nu of
\* an incoming message, and the entries of all the incoming means together
MaxIncoming == 3
MaxMean == 1
MaxNu == 1
MaxEntries == 4
\* get_population_expression: the cells of the subpopulation, and the
\* largest n_cells_per_chunk and max_chunks
MaxCells == 5
MaxPerChunk == 3
MaxChunksArg == 2
MaxRows == 3
MaxWeight == 2

(***************************************************************************)
(* Exact rational arithmetic.                                              *)
(***************************************************************************)
Abs(x) == IF x < 0 THEN -x ELSE x

RECURSIVE GCD(_, _)
GCD(a, b) == IF b = 0 THEN a ELSE GCD(b, a % b)

\* a number out of the range the model keeps exact; it absorbs
Huge == <<0, 0>>
IsHuge(a) == a[2] = 0

\* the rational n/m (m # 0) in lowest terms with a positive denominator
Rat(n, m) ==
    LET g == GCD(Abs(n), Abs(m))
        s == IF m < 0 THEN -1 ELSE 1
        p == (s * n) \div g
        q == (s * m) \div g
    IN  IF Abs(p) > MaxInt \/ q > MaxInt THEN Huge ELSE <<p, q>>

IntRat(n) == <<n, 1>>
RZero == IntRat(0)
ROne == IntRat(1)
\* sums and products are reduced before they are formed, to keep the
\* intermediate integers small
RAdd(a, b) ==
    IF IsHuge(a) \/ IsHuge(b) THEN Huge
    ELSE LET g == GCD(a[2], b[2])
         IN  Rat(a[1] * (b[2] \div g) + b[1] * (a[2] \div g), (a[2] \div g) * b[2])
RNeg(a) == <<-a[1], a[2]>>
RSub(a, b) == RAdd(a, RNeg(b))
RMul(a, b) ==
    IF IsHuge(a) \/ IsHuge(b) THEN Huge
    ELSE LET g == GCD(Abs(a[1]), b[2])
             h == GCD(Abs(b[1]), a[2])
         IN  Rat((a[1] \div g) * (b[1] \div h), (a[2] \div h) * (b[2] \div g))
RDiv(a, b) == RMul(a, IF b[1] < 0 THEN <<-b[2], -b[1]>> ELSE <<b[2], b[1]>>)
RInv(a) == RDiv(ROne, a)

\* vectors (torch tensors of shape (d,)) of rationals
VecZero(d) == [i \in 1..d |-> RZero]
VecAdd(u, v) == [i \in DOMAIN u |-> RAdd(u[i], v[i])]
VecScale(u, c) == [i \in DOMAIN u |-> RMul(u[i], c)]
VecDiv(u, c) == [i \in DOMAIN u |-> RDiv(u[i], c)]

RECURSIVE RSum(_)
RSum(s) == IF s = <<>> THEN RZero ELSE RAdd(s[1], RSum(Tail(s)))

\* torch.sum((u - v) ** 2).item()
SqDist(u, v) == RSum([i \in DOMAIN u |-> RMul(RSub(u[i], v[i]), RSub(u[i], v[i]))])
\* torch.sum(u ** 2).item()
SqNorm(u) == RSum([i \in DOMAIN u |-> RMul(u[i], u[i])])

(***************************************************************************)
(* Log-normalizers.                                                        *)
(***************************************************************************)
\* the number 0 (log_z = 0, res = 0)
LZero == [k |-> 0, t |-> ROne, q |-> RZero]
\* x + y
LAdd(x, y) == [k |-> x.k + y.k, t |-> RMul(x.t, y.t), q |-> RAdd(x.q, y.q)]


(***************************************************************************)
(* State.                                                                  *)
(***************************************************************************)
VARIABLES
    up,             \* the tree self.tree: up[n] is the parent of node n # prior_root
    z,              \* the leaf evidence: z[l] is the row of leaf (barcode) l
    annotated,      \* whether the nodes carry the features nu, mu, log_z
    visited,        \* node.visited
    nu,             \* node.nu
    mu,             \* node.mu: a reference to a tensor
    tensors,        \* the storage of the tensors the nodes' mu refer to
    log_z,          \* node.log_z
    loss,           \* self.loss
    pc,             \* the position in the running top-level call
    op,             \* the running top-level call and its arguments
    stack,          \* the frames of the running perform_message_passing
    ret,            \* what the last top-level call returned or raised
    calls,          \* top-level calls made so far
    entered,        \* per node, entries of perform_message_passing since initialize_visit
    received,       \* per node, the messages its invocation collected, -1 before it returns
    last            \* the last step of the engine: what it did, to which node, and
                    \* whether the node carried a message of an earlier pass

treeVars == <<up, z, annotated, visited, nu, mu, tensors, log_z, loss, pc, op,
              stack, ret, calls, entered, received,
              last>>

\* one node of TreeVAE on its own: the messages that come in, and what
\* perform_message_passing makes of them
VARIABLES
    given,          \* the messages before: the node is 0, the incoming nodes 1..n
    result,         \* the messages after
    applied         \* whether the node has been processed

combineVars == <<given, result, applied>>

\* DEMixin.get_population_expression
VARIABLES
    indices,            \* the caller's array of cell indices
    args,               \* the other arguments of the call
    observed_batches,   \* adata[indices].obs[adata_key].values
    np_random,          \* the state of NumPy's global generator
    np_random_at_call,  \* the state it had when the call began
    de_pc,              \* the position in get_population_expression
    effective,          \* the contents of indices_ when Step 2 begins
    indices_,           \* the local array indices_
    cell_chunks,        \* the local list cell_chunks
    n_cells_used,
    n_samples_per_cell,
    n_samples_overall,  \* the local n_samples_overall, <<>> for None
    res,                \* the local list res, one block per chunk
    de_ret,             \* what the call returned or raised
    filter_call         \* the call of filter_cells: <<>> when there was none

populationVars ==
    <<indices, args, observed_batches, np_random, np_random_at_call, de_pc,
      effective, indices_, cell_chunks, n_cells_used, n_samples_per_cell,
      n_samples_overall, res, de_ret, filter_call>>

\* DEMixin._inference_loop on one chunk, from line 351 on
VARIABLES
    hs,                 \* the decoded expression rows, one for each sample
    importance_weight,  \* the log importance weight of each sample
    log_probs,
    ws,
    windices,
    hs_weighted,
    il_pc               \* the position in _inference_loop

inferenceVars == <<hs, importance_weight, log_probs, ws, windices, hs_weighted, il_pc>>

deVars == <<populationVars, inferenceVars>>

(***************************************************************************)
(* The tree (ete3): node 0 is the prior root, node 1 the biological root,  *)
(* its only child; a node's children are listed in increasing order.       *)
(***************************************************************************)
prior_root == 0
root == 1

Nodes == {prior_root} \cup DOMAIN up

\* every tree of n nodes, prior root included: TreeVAE.__init__ adds the
\* given tree as the only child of Tree("prior_root;")
TreesOf(n) ==
    { u \in [1..(n - 1) -> 0..(n - 2)] :
        /\ u[root] = prior_root
        /\ \A c \in 2..(n - 1) : u[c] >= root /\ u[c] < c }

RECURSIVE SortedSeq(_)
SortedSeq(S) ==
    IF S = {} THEN <<>>
    ELSE LET m == CHOOSE x \in S : \A y \in S : x <= y
         IN  <<m>> \o SortedSeq(S \ {m})

children(n) == SortedSeq({c \in DOMAIN up : up[c] = n})
is_root(n) == n \notin DOMAIN up
is_leaf(n) == children(n) = <<>>
Leaves == {n \in Nodes : is_leaf(n)}

\* incident_nodes of perform_message_passing: the children, then the parent
incident_nodes(n) == children(n) \o (IF ~is_root(n) THEN <<up[n]>> ELSE <<>>)

\* self.tree.traverse(): ete3's default strategy, level order
RECURSIVE levelorder(_)
levelorder(queue) ==
    IF queue = <<>> THEN <<>>
    ELSE <<Head(queue)>> \o levelorder(Tail(queue) \o children(Head(queue)))

traverse == levelorder(<<prior_root>>)

\* the evidence with scale s: row l is <<s*l, s*l + 1, ...>>, so that with
\* s = 1 no two leaves carry the same evidence
Scales == {1}
Evidence(u, s) ==
    [l \in {n \in DOMAIN u : \A c \in DOMAIN u : u[c] # n} |->
        [i \in 1..n_latent |-> IntRat(s * l + i - 1)]]

\* the value of node n's mu
Mu(n) == tensors[mu[n]]


(***************************************************************************)
(* initialize_messages(evidence, barcodes, d), lines 112-144.  The rows of *)
(* evidence are keyed by their barcodes: ev[l] is the row of barcode l.    *)
(* Every node gets a tensor of its own.                                    *)
(***************************************************************************)
\* dic_nu, dic_log_z: the barcodes and the prior root, all 0
dic_keys(ev) == DOMAIN ev \cup {prior_root}
dic_mu(ev, d) == [n \in dic_keys(ev) |-> IF n = prior_root THEN VecZero(d) ELSE ev[n]]

\* a reset that leaves the nodes outside dic_nu as they were
init_nu_kept(n, ev) == IF n \in dic_keys(ev) THEN RZero ELSE nu[n]
init_nu(n, ev) == RZero
init_log_z_kept(n, ev) == IF n \in dic_keys(ev) THEN LZero ELSE log_z[n]
init_log_z(n, ev) == LZero
init_mu(n, ev, d) == IF n \in dic_keys(ev) THEN dic_mu(ev, d)[n] ELSE VecZero(d)

(***************************************************************************)
(* The body of perform_message_passing after its recursive calls, lines    *)
(* 170-248, for root_node = r and incoming_messages = inc.  A message      *)
(* state is a record [nu, mu, tensors, log_z].                             *)
(***************************************************************************)
\* lines 176-181, n == 1
edge_length == ROne
\* the edge length left out
pass_nu_no_edge(knu) == knu
pass_nu(knu) == RAdd(knu, edge_length)
pass_log_z == LZero

one_message(m, r, inc) ==
    LET k == inc[1]
    IN  [m EXCEPT !.nu[r] = pass_nu(m.nu[k]),
                  !.mu[r] = m.mu[k],
                  !.log_z[r] = pass_log_z]

\* lines 190-197: the loop over the incoming messages, from index i on;
\* acc is [m, children_nu]
RECURSIVE accumulate(_, _, _, _)
accumulate(acc, r, inc, i) ==
    IF i > Len(inc) THEN acc
    ELSE LET k == inc[i]
             m == acc.m
             c == RAdd(m.nu[k], edge_length)
             children_mu == VecDiv(m.tensors[m.mu[k]], c)
             m2 == [m EXCEPT !.nu[r] = RAdd(@, RInv(c)),
                             !.tensors[m.mu[r]] = VecAdd(@, children_mu)]
         IN  accumulate([m |-> m2, children_nu |-> Append(acc.children_nu, c)],
                        r, inc, i + 1)

\* the precision inverted, the mean left as the sum
invert_nu_only(m, r) == [m EXCEPT !.nu[r] = RInv(m.nu[r])]

\* lines 199-200
invert(m, r) ==
    LET rnu == RInv(m.nu[r])
    IN  [m EXCEPT !.nu[r] = rnu, !.tensors[m.mu[r]] = VecScale(@, rnu)]

\* lines 203-216
RECURSIVE product_without(_, _)
product_without(L, exclude) ==
    IF L = <<>> THEN ROne
    ELSE LET n == Len(L)
             rest == product_without(SubSeq(L, 1, n - 1), exclude)
         IN  IF n \in exclude THEN rest ELSE RMul(rest, L[n])

\* lines 219-223
RECURSIVE find_t(_, _)
find_t(children_nu, excluded_idx) ==
    IF excluded_idx > Len(children_nu) THEN RZero
    ELSE RAdd(product_without(children_nu, {excluded_idx}),
              find_t(children_nu, excluded_idx + 1))

\* lines 233-237: the inner loop over h, from h on; st is [h, prod_2], the
\* values the loop leaves in its two variables (prod_2 = <<>>: unassigned)
RECURSIVE inner_loop(_, _, _, _)
inner_loop(children_nu, j, h, st) ==
    IF h > Len(children_nu) THEN st
    ELSE inner_loop(children_nu, j, h + 1,
                    IF h = j THEN [h |-> h, prod_2 |-> st.prod_2]
                    ELSE [h |-> h, prod_2 |-> product_without(children_nu, {j, h})])

\* lines 232-240: the outer loop over j, from j on; st carries h and prod_2
\* from one iteration to the next, as Python's variables do
\* before the loops of lines 232-240 no prod_2 is bound
Z_3_start == [h |-> 0, prod_2 |-> <<>>]

\* the sum over all the ordered pairs (j, h), j # h
Z_3_pairs(m, inc, children_nu, j, st) ==
    LET n == Len(inc)
    IN  RSum([p \in 1..(n * n) |->
                LET a == ((p - 1) \div n) + 1
                    b == ((p - 1) % n) + 1
                IN  IF a = b THEN RZero
                    ELSE RMul(product_without(children_nu, {a, b}),
                              SqDist(m.tensors[m.mu[inc[a]]], m.tensors[m.mu[inc[b]]]))])

RECURSIVE Z_3_loop(_, _, _, _, _)
Z_3_loop(m, inc, children_nu, j, st) ==
    IF j > Len(inc) THEN RZero
    ELSE LET st2 == inner_loop(children_nu, j, 1, st)
             k == inc[st2.h]
             l == inc[j]
             term == RMul(st2.prod_2,
                          SqDist(m.tensors[m.mu[k]], m.tensors[m.mu[l]]))
         IN  RAdd(term, Z_3_loop(m, inc, children_nu, j + 1, st2))

\* lines 226-244: log_z = Z_1 + Z_2 + Z_3, with Z_1 = -0.5*(n-1)*d*log(2*pi),
\* Z_2 = -0.5*d*log(t) and Z_3 = (-0.5/t) * the sum of the loop
normalizer(m, inc, children_nu) ==
    LET n == Len(inc)
        t == find_t(children_nu, 1)
        Z_3 == Z_3_loop(m, inc, children_nu, 1, Z_3_start)
    IN  [k |-> n - 1, t |-> t, q |-> RDiv(Z_3, t)]

\* lines 183-244, n >= 2
many_messages(m, r, inc) ==
    LET acc == accumulate([m |-> m, children_nu |-> <<>>], r, inc, 1)
        m2 == invert(acc.m, r)
    IN  [m2 EXCEPT !.log_z[r] = normalizer(m2, inc, acc.children_nu)]

\* lines 170-248
combine(m, r, inc) ==
    LET n == Len(inc)
    IN  IF n = 0 THEN m
        ELSE IF n = 1 THEN one_message(m, r, inc)
        ELSE many_messages(m, r, inc)

(***************************************************************************)
(* aggregate_messages_into_leaves_likelihood(d, add_prior), lines 250-265, *)
(* summing along the sequence order of nodes.                              *)
(***************************************************************************)
\* res = node.log_z in place of res += node.log_z
agg_Z_last(lz, order) == IF order = <<>> THEN LZero ELSE lz[order[Len(order)]]

RECURSIVE agg_Z(_, _)
agg_Z(lz, order) ==
    IF order = <<>> THEN LZero
    ELSE LAdd(agg_Z(lz, SubSeq(order, 1, Len(order) - 1)), lz[order[Len(order)]])

\* lines 259-264: -0.5*sum(mu**2)/nu_inc - d*0.5*log(2*pi*nu_inc)
prior_term(m) ==
    LET nu_inc == RAdd(ROne, m.nu[root])
    IN  [k |-> 1, t |-> nu_inc, q |-> RDiv(SqNorm(m.tensors[m.mu[root]]), nu_inc)]

aggregate_over(m, order, add_prior) ==
    LET sum == agg_Z(m.log_z, order)
    IN  IF add_prior THEN LAdd(sum, prior_term(m)) ELSE sum

aggregate_messages_into_leaves_likelihood(m, add_prior) ==
    aggregate_over(m, traverse, add_prior)


(***************************************************************************)
(* The engine as a state machine.                                          *)
(***************************************************************************)
\* the messages on the tree
messages == [nu |-> nu, mu |-> mu, tensors |-> tensors, log_z |-> log_z]

no_step == [act |-> "none", node |-> prior_root, n |-> 0, stale |-> FALSE]
no_ret == [kind |-> "none", val |-> <<>>]
\* line 284 reads root_node.mu on a tree that initialize_messages never annotated
AttributeError == [kind |-> "AttributeError", val |-> <<>>]

InitTreeWith(u) ==
    /\ up = u
    /\ \E s \in Scales : z = Evidence(up, s)
    /\ annotated = FALSE
    /\ visited = [n \in Nodes |-> FALSE]
    /\ nu = [n \in Nodes |-> RZero]
    /\ mu = [n \in Nodes |-> n]
    /\ tensors = [n \in Nodes |-> VecZero(n_latent)]
    /\ log_z = [n \in Nodes |-> LZero]
    /\ loss = [Reconstruction |-> <<>>, MP_lik |-> <<>>, Gaussian_pdf |-> <<>>]
    /\ pc = "idle"
    /\ op = [name |-> "none", start |-> root, include_prior |-> FALSE,
             evidence |-> FALSE, add_prior |-> FALSE]
    /\ stack = <<>>
    /\ ret = no_ret
    /\ calls = 0
    /\ entered = [n \in Nodes |-> 0]
    /\ received = [n \in Nodes |-> -1]
    /\ last = no_step

InitTree == \E n \in 2..MaxNodes : \E u \in TreesOf(n) : InitTreeWith(u)

\* a top-level call begins: its first statement is self.initialize_visit()
begin(o) ==
    /\ pc = "idle"
    /\ calls < MaxCalls
    /\ calls' = calls + 1
    /\ op' = o
    /\ pc' = "initialize_visit"
    /\ ret' = no_ret
    /\ last' = [no_step EXCEPT !.act = "call"]
    /\ UNCHANGED <<up, z, annotated, visited, nu, mu, tensors, log_z, loss, stack, entered,
                   received>>
    /\ UNCHANGED <<combineVars, deVars>>

\* forward, lines 374-385: the pass starts at self.root with
\* include_prior=False, the aggregation is called with add_prior=True
forward_include_prior == FALSE
forward_add_prior_off == FALSE
forward_add_prior == TRUE

forward_op ==
    [name |-> "forward", start |-> root, include_prior |-> forward_include_prior,
     evidence |-> TRUE, add_prior |-> forward_add_prior]

forward_call == begin(forward_op)

\* posterior_predictive_density(query_node, evidence), lines 268-284
posterior_predictive_density_call ==
    \E query_node \in Nodes, evidence \in BOOLEAN :
        begin([name |-> "posterior_predictive_density", start |-> query_node,
               include_prior |-> TRUE, evidence |-> evidence, add_prior |-> FALSE])

\* the engine used directly: initialize_visit, initialize_messages and
\* perform_message_passing(root_node, d, False) from any node
perform_message_passing_call ==
    \E root_node \in Nodes :
        begin([name |-> "perform_message_passing", start |-> root_node,
               include_prior |-> FALSE, evidence |-> TRUE, add_prior |-> FALSE])

\* a reset that passes over the prior root
initialize_visit_but_prior ==
    /\ pc = "initialize_visit"
    /\ visited' = [n \in Nodes |-> n = prior_root /\ visited[n]]
    /\ entered' = [n \in Nodes |-> 0]
    /\ received' = [n \in Nodes |-> -1]
    /\ pc' = IF op.evidence THEN "initialize_messages" ELSE "perform_message_passing"
    /\ last' = [no_step EXCEPT !.act = "initialize_visit"]
    /\ UNCHANGED <<up, z, annotated, nu, mu, tensors, log_z, loss, op, stack, ret, calls>>
    /\ UNCHANGED <<combineVars, deVars>>

\* lines 146-149
initialize_visit ==
    /\ pc = "initialize_visit"
    /\ visited' = [n \in Nodes |-> FALSE]
    /\ entered' = [n \in Nodes |-> 0]
    /\ received' = [n \in Nodes |-> -1]
    /\ pc' = IF op.evidence THEN "initialize_messages" ELSE "perform_message_passing"
    /\ last' = [no_step EXCEPT !.act = "initialize_visit"]
    /\ UNCHANGED <<up, z, annotated, nu, mu, tensors, log_z, loss, op, stack, ret, calls>>
    /\ UNCHANGED <<combineVars, deVars>>

\* lines 112-144, with the evidence z and the barcodes of the leaves
initialize_messages ==
    /\ pc = "initialize_messages"
    /\ nu' = [n \in Nodes |-> init_nu(n, z)]
    /\ mu' = [n \in Nodes |-> n]
    /\ tensors' = [n \in Nodes |-> init_mu(n, z, n_latent)]
    /\ log_z' = [n \in Nodes |-> init_log_z(n, z)]
    /\ annotated' = TRUE
    /\ pc' = "perform_message_passing"
    /\ last' = [no_step EXCEPT !.act = "initialize_messages"]
    /\ UNCHANGED <<up, z, visited, loss, op, stack, ret, calls, entered, received>>
    /\ UNCHANGED <<combineVars, deVars>>

\* lines 154-160: an invocation of perform_message_passing begins
frame(n) == [node |-> n, i |-> 1, incoming_messages |-> <<>>]

\* the top-level invocation; posterior_predictive_density reads
\* len(root_node.mu) first, which raises on nodes that carry no mu
enter ==
    /\ pc = "perform_message_passing"
    /\ IF op.name = "posterior_predictive_density" /\ ~annotated
       THEN /\ pc' = "idle"
            /\ ret' = AttributeError
            /\ last' = [no_step EXCEPT !.act = "raise"]
            /\ UNCHANGED <<visited, stack, entered>>
       ELSE /\ pc' = "passing"
            /\ visited' = [visited EXCEPT ![op.start] = TRUE]
            /\ entered' = [entered EXCEPT ![op.start] = @ + 1]
            /\ stack' = <<frame(op.start)>>
            /\ last' = [no_step EXCEPT !.act = "enter", !.node = op.start]
            /\ UNCHANGED ret
    /\ UNCHANGED <<up, z, annotated, nu, mu, tensors, log_z, loss, op, calls,
                   received>>
    /\ UNCHANGED <<combineVars, deVars>>

top == stack[Len(stack)]

\* the test of the prior root left out, and the prior root never traversed
unvisited_any(node, include_prior) == ~visited[node]
unvisited_never_prior(node, include_prior) == ~visited[node] /\ node # prior_root

\* lines 164-166: the neighbour is to be traversed
unvisited(node, include_prior) ==
    ~visited[node] /\ (node # prior_root \/ (node = prior_root /\ include_prior))

\* lines 163-166: the loop over incident_nodes runs from index top.i to the
\* first neighbour to traverse, or to the end of the list
RECURSIVE next_index(_, _)
next_index(nodes, i) ==
    IF i > Len(nodes) THEN i
    ELSE IF unvisited(nodes[i], op.include_prior) THEN i
    ELSE next_index(nodes, i + 1)

\* a recursive invocation that leaves out line 155
recurse_unmarked ==
    /\ pc = "passing"
    /\ LET nodes == incident_nodes(top.node)
           i == next_index(nodes, top.i)
       IN  /\ i <= Len(nodes)
           /\ entered' = [entered EXCEPT ![nodes[i]] = @ + 1]
           /\ stack' = Append([stack EXCEPT ![Len(stack)].i = i], frame(nodes[i]))
           /\ last' = [no_step EXCEPT !.act = "enter", !.node = nodes[i]]
    /\ UNCHANGED <<up, z, annotated, visited, nu, mu, tensors, log_z, loss, pc, op, ret,
                   calls, received>>
    /\ UNCHANGED <<combineVars, deVars>>

\* line 167: the recursive invocation on the next neighbour to traverse,
\* whose first statement marks it visited (line 155)
recurse ==
    /\ pc = "passing"
    /\ LET nodes == incident_nodes(top.node)
           i == next_index(nodes, top.i)
       IN  /\ i <= Len(nodes)
           /\ visited' = [visited EXCEPT ![nodes[i]] = TRUE]
           /\ entered' = [entered EXCEPT ![nodes[i]] = @ + 1]
           /\ stack' = Append([stack EXCEPT ![Len(stack)].i = i], frame(nodes[i]))
           /\ last' = [no_step EXCEPT !.act = "enter", !.node = nodes[i]]
    /\ UNCHANGED <<up, z, annotated, nu, mu, tensors, log_z, loss, pc, op, ret, calls,
                   received>>
    /\ UNCHANGED <<combineVars, deVars>>

\* a classification that knows no more than two incoming messages
branch_binary(n) ==
    IF n = 0 THEN "return"
    ELSE IF n = 1 THEN "pass"
    ELSE IF n = 2 THEN "combine"
    ELSE "NotImplementedError"

\* the if / elif / elif / else of lines 172, 176, 183 and 246 on
\* n = len(incoming_messages)
branch(n) ==
    IF n = 0 THEN "return"
    ELSE IF n = 1 THEN "pass"
    ELSE IF n >= 2 THEN "combine"
    ELSE "NotImplementedError"

\* line 248; nothing in the class catches it
NotImplementedError == [kind |-> "NotImplementedError", val |-> <<>>]

\* lines 170-248, and the return to the caller, which appends the node to
\* its incoming_messages (line 168)
collect ==
    /\ pc = "passing"
    /\ next_index(incident_nodes(top.node), top.i) > Len(incident_nodes(top.node))
    /\ LET m == combine(messages, top.node, top.incoming_messages)
           below == SubSeq(stack, 1, Len(stack) - 1)
       IN  IF branch(Len(top.incoming_messages)) = "NotImplementedError"
           THEN /\ ret' = NotImplementedError
                /\ stack' = <<>>
                /\ pc' = "idle"
                /\ UNCHANGED <<nu, mu, tensors, log_z>>
           ELSE /\ nu' = m.nu
                /\ mu' = m.mu
                /\ tensors' = m.tensors
                /\ log_z' = m.log_z
                /\ IF below = <<>>
                   THEN /\ stack' = <<>>
                        /\ pc' = IF op.name = "forward" THEN "aggregate" ELSE "return"
                   ELSE /\ stack' = [below EXCEPT
                                       ![Len(below)].i = @ + 1,
                                       ![Len(below)].incoming_messages = Append(@, top.node)]
                        /\ pc' = pc
                /\ UNCHANGED ret
    /\ received' = [received EXCEPT ![top.node] = Len(top.incoming_messages)]
    /\ last' = [act |-> "collect", node |-> top.node, n |-> Len(top.incoming_messages),
                stale |-> nu[top.node] # RZero /\ log_z[top.node] # LZero]
    /\ UNCHANGED <<up, z, annotated, visited, loss, op, calls, entered>>
    /\ UNCHANGED <<combineVars, deVars>>

\* a forward that starts its three lists anew
forward_return_resets ==
    /\ pc = "aggregate"
    /\ LET mp_lik == aggregate_messages_into_leaves_likelihood(messages, op.add_prior)
       IN  /\ loss' = [Reconstruction |-> <<"reconst_loss">>,
                       MP_lik |-> <<[mp_lik |-> mp_lik, over |-> Cardinality(DOMAIN z)]>>,
                       Gaussian_pdf |-> <<"qz">>]
           /\ ret' = [kind |-> "forward", val |-> mp_lik]
    /\ pc' = "idle"
    /\ last' = [no_step EXCEPT !.act = "return"]
    /\ UNCHANGED <<up, z, annotated, visited, nu, mu, tensors, log_z, op, stack,
                   calls, entered, received>>
    /\ UNCHANGED <<combineVars, deVars>>

\* forward, lines 383-400: mp_lik, the diagnostics
forward_return ==
    /\ pc = "aggregate"
    /\ LET mp_lik == aggregate_messages_into_leaves_likelihood(messages, op.add_prior)
       IN  /\ loss' = [Reconstruction |-> Append(loss.Reconstruction, "reconst_loss"),
                       MP_lik |-> Append(loss.MP_lik,
                                         [mp_lik |-> mp_lik, over |-> Cardinality(DOMAIN z)]),
                       Gaussian_pdf |-> Append(loss.Gaussian_pdf, "qz")]
           /\ ret' = [kind |-> "forward", val |-> mp_lik]
    /\ pc' = "idle"
    /\ last' = [no_step EXCEPT !.act = "return"]
    /\ UNCHANGED <<up, z, annotated, visited, nu, mu, tensors, log_z, op, stack,
                   calls, entered, received>>
    /\ UNCHANGED <<combineVars, deVars>>

\* posterior_predictive_density, line 285; the direct pass returns None
pass_return ==
    /\ pc = "return"
    /\ ret' = IF op.name = "posterior_predictive_density"
              THEN [kind |-> "posterior_predictive_density",
                    val |-> <<Mu(op.start), nu[op.start]>>]
              ELSE no_ret
    /\ pc' = "idle"
    /\ last' = [no_step EXCEPT !.act = "return"]
    /\ UNCHANGED <<up, z, annotated, visited, nu, mu, tensors, log_z, loss, op, stack,
                   calls, entered, received>>
    /\ UNCHANGED <<combineVars, deVars>>

\* aggregate_messages_into_leaves_likelihood(d, add_prior) called on the
\* messages a pass left
aggregate_call ==
    /\ pc = "idle"
    /\ calls < MaxCalls
    /\ annotated
    /\ \E add_prior \in BOOLEAN :
        /\ op' = [name |-> "aggregate_messages_into_leaves_likelihood",
                  start |-> root, include_prior |-> FALSE, evidence |-> FALSE,
                  add_prior |-> add_prior]
        /\ ret' = [kind |-> "aggregate",
                   val |-> aggregate_messages_into_leaves_likelihood(messages, add_prior)]
    /\ calls' = calls + 1
    /\ last' = [no_step EXCEPT !.act = "aggregate"]
    /\ UNCHANGED <<up, z, annotated, visited, nu, mu, tensors, log_z, loss, pc, stack,
                   entered, received>>
    /\ UNCHANGED <<combineVars, deVars>>

NextTree ==
    \/ forward_call
    \/ posterior_predictive_density_call
    \/ perform_message_passing_call
    \/ aggregate_call
    \/ initialize_visit
    \/ initialize_messages
    \/ enter
    \/ recurse
    \/ collect
    \/ forward_return
    \/ pass_return

(***************************************************************************)
(* One node of the tree on its own: perform_message_passing, lines         *)
(* 170-248, applied to a node that initialize_messages zeroed and that     *)
(* has received the messages of n incoming nodes.                          *)
(***************************************************************************)
Values(max) == {IntRat(v) : v \in 0..max}

InitCombineWith(n, nus, mus, d) ==
    /\ given = [nu |-> [i \in 0..n |-> IF i = 0 THEN RZero ELSE nus[i]],
                mu |-> [i \in 0..n |-> i],
                tensors |-> [i \in 0..n |-> IF i = 0 THEN VecZero(d) ELSE mus[i]],
                log_z |-> [i \in 0..n |-> LZero]]
    /\ result = given
    /\ applied = FALSE

InitCombine ==
    \E d \in 1..n_latent, n \in 2..MaxIncoming :
        /\ n * d <= MaxEntries
        /\ \E nus \in [1..n -> Values(MaxNu)], mus \in [1..n -> [1..d -> Values(MaxMean)]] :
               InitCombineWith(n, nus, mus, d)

\* incoming_messages: the nodes 1..n
incoming_messages(m) == [i \in 1..(Cardinality(DOMAIN m.nu) - 1) |-> i]

process_node ==
    /\ ~applied
    /\ result' = combine(given, 0, incoming_messages(given))
    /\ applied' = TRUE
    /\ UNCHANGED <<given, treeVars, deVars>>

NextCombine == process_node

(***************************************************************************)
(* DEMixin.get_population_expression, src/scvi/model/base/_demixin.py.     *)
(* An array is a sequence of cells; None is <<>> and a value v is <<v>>.   *)
(***************************************************************************)
Opt(S) == {<<>>} \cup {<<v>> : v \in S}

\* the cells the caller asks for, and the batch adata records for a cell
cell(i) == 10 + i
batch_of(c) == c % 2

\* a[mask], indexing with a boolean array: a new array
RECURSIVE select(_, _)
select(a, mask) ==
    IF a = <<>> THEN <<>>
    ELSE (IF mask[1] THEN <<a[1]>> ELSE <<>>) \o select(Tail(a), Tail(mask))

ones(n) == [i \in 1..n |-> TRUE]

\* EllipticEnvelope().fit_predict(qz_m): it raises ValueError (fit[1]) or
\* marks the inliers (fit[2])
FitOutcomes(n) == {<<TRUE, ones(n)>>} \cup {<<FALSE, mask>> : mask \in [1..n -> BOOLEAN]}
no_fit == <<FALSE, <<>>>>

\* a filter that keeps only the first cell when the fit raises
filter_cells_first_on_error(a, fit) ==
    IF fit[1] THEN <<a[1]>>
    ELSE LET n_in == Cardinality({i \in 1..Len(a) : fit[2][i]})
         IN  select(a, IF n_in <= 1 THEN ones(Len(a)) ELSE fit[2])

\* a filter that falls back on all cells only when no cell is an inlier
filter_cells_keeps_one(a, fit) ==
    LET caught == IF fit[1] THEN ones(Len(a)) ELSE fit[2]
    IN  select(a, IF Cardinality({i \in 1..Len(a) : caught[i]}) < 1
                  THEN ones(Len(a)) ELSE caught)

\* filter_cells, lines 433-473: get_latent_representation gives one row of
\* qz_m for each index, so that the check of lines 459-460 passes
filter_cells(a, fit) ==
    LET caught == IF fit[1] THEN ones(Len(a)) ELSE fit[2]
        idx_filt == IF Cardinality({i \in 1..Len(a) : caught[i]}) <= 1
                    THEN ones(Len(a)) ELSE caught
    IN  select(a, idx_filt)

\* int(np.ceil(a / b)), line 218
ceil(a, b) == IF a % b = 0 THEN a \div b ELSE (a \div b) + 1

\* np.random.seed(0); np.random.shuffle(np.arange(n)), for n = 1..10
shuffled_arange ==
    << <<0>>,
       <<1, 0>>,
       <<2, 1, 0>>,
       <<2, 3, 1, 0>>,
       <<2, 0, 1, 3, 4>>,
       <<5, 2, 1, 3, 0, 4>>,
       <<6, 2, 1, 3, 0, 5, 4>>,
       <<6, 2, 1, 7, 3, 0, 5, 4>>,
       <<7, 2, 1, 4, 8, 6, 3, 0, 5>>,
       <<2, 8, 4, 9, 1, 6, 7, 3, 0, 5>> >>

\* a shuffle with the generator as the call found it: line 220 without
\* line 219. Only the order after seed(0) is taken from NumPy; a generator
\* in another state is given the reversed order.
shuffle_unseeded(a) ==
    IF np_random = "seed(0)"
    THEN [i \in 1..Len(a) |-> a[shuffled_arange[Len(a)][i] + 1]]
    ELSE [i \in 1..Len(a) |-> a[Len(a) + 1 - i]]

\* lines 219-220: the array after np.random.seed(0); np.random.shuffle(a)
shuffle(a) == [i \in 1..Len(a) |-> a[shuffled_arange[Len(a)][i] + 1]]

\* sections of equal length, the rest dropped
array_split_even(a, n) ==
    [j \in 1..n |-> SubSeq(a, (j - 1) * (Len(a) \div n) + 1, j * (Len(a) \div n))]

\* the first section takes all the elements that are left over
array_split_front(a, n) ==
    LET each == Len(a) \div n
        extras == Len(a) % n
        upto(j) == IF j = 0 THEN 0 ELSE j * each + extras
    IN  [j \in 1..n |-> SubSeq(a, upto(j - 1) + 1, upto(j))]

\* np.array_split(a, n): the first Len(a) % n sections have one element
\* more than the others
array_split(a, n) ==
    LET each == Len(a) \div n
        extras == Len(a) % n
        upto(j) == j * each + (IF j < extras THEN j ELSE extras)
    IN  [j \in 1..n |-> SubSeq(a, upto(j - 1) + 1, upto(j))]

\* the last max_chunks chunks in place of the first
last_chunks(chunks, max_chunks) ==
    IF max_chunks = <<>> THEN chunks
    ELSE SubSeq(chunks, IF max_chunks[1] < Len(chunks) THEN Len(chunks) - max_chunks[1] + 1
                        ELSE 1, Len(chunks))

\* chunks[:max_chunks], line 221
first(chunks, max_chunks) ==
    IF max_chunks = <<>> THEN chunks
    ELSE SubSeq(chunks, 1, IF max_chunks[1] < Len(chunks) THEN max_chunks[1]
                           ELSE Len(chunks))

\* np.concatenate
RECURSIVE concatenate(_)
concatenate(arrays) ==
    IF arrays = <<>> THEN <<>> ELSE arrays[1] \o concatenate(Tail(arrays))

\* what a call gives back: an array of so many rows, of which the model
\* follows one (row), or an exception
no_return == [kind |-> "none", rows |-> 0, row |-> <<>>]
ValueError == [kind |-> "ValueError", rows |-> 0, row |-> <<>>]
\* an error in place of the empty result
empty_array_raised == [kind |-> "IndexError", rows |-> 0, row |-> <<>>]

\* np.array([]).reshape((0, n_genes)), line 202, and an empty res[idx]
empty_array == [kind |-> "array", rows |-> 0, row |-> <<>>]

InitDEWith(N, k, max_chunks, filter, transform_batch, overall, short, generator) ==
    /\ indices = [i \in 1..N |-> cell(i)]
    /\ args = [n_samples |-> 2, n_samples_overall |-> overall, filter_cells |-> filter,
               transform_batch |-> transform_batch, n_cells_per_chunk |-> k,
               max_chunks |-> max_chunks]
    /\ observed_batches = [i \in 1..(IF short THEN N - 1 ELSE N) |-> batch_of(cell(i))]
    /\ np_random = generator
    /\ np_random_at_call = generator
    /\ de_pc = "called"
    /\ effective = <<>>
    /\ indices_ = <<>>
    /\ cell_chunks = <<>>
    /\ n_cells_used = 0
    /\ n_samples_per_cell = 0
    /\ n_samples_overall = overall
    /\ res = <<>>
    /\ de_ret = no_return
    /\ filter_call = <<>>

\* the batches have another shape than the indices when indices is not an
\* array of integers (a boolean mask selects fewer rows than it has entries)
InitDE ==
    \E N \in 0..MaxCells, k \in 1..MaxPerChunk, max_chunks \in Opt(1..MaxChunksArg),
       filter \in BOOLEAN, transform_batch \in Opt(0..1), overall \in Opt({3}),
       short \in BOOLEAN, generator \in {"seed(0)", "seed(1)"} :
        /\ short => (transform_batch # <<>> /\ N >= 1)
        /\ InitDEWith(N, k, max_chunks, filter, transform_batch, overall, short, generator)

\* the cells whose observed batch is another one than the requested one
restrict_to_other_batches(a, batches, transform_batch_val) ==
    select(a, [i \in 1..Len(a) |-> batches[i] # transform_batch_val])

\* indices[observed_batches == transform_batch_val], line 197
restrict_to_batch(a, batches, transform_batch_val) ==
    select(a, [i \in 1..Len(a) |-> batches[i] = transform_batch_val])

\* lines 187-229: Step 1 and Step 2
get_population_expression ==
    /\ de_pc = "called"
    /\ LET restrict == args.transform_batch # <<>>
           restricted ==
               IF restrict
               THEN restrict_to_batch(indices, observed_batches, args.transform_batch[1])
               ELSE indices
       IN  IF restrict /\ Len(indices) # Len(observed_batches)
           THEN /\ de_ret' = ValueError
                /\ de_pc' = "done"
                /\ UNCHANGED <<indices, np_random, effective, indices_, cell_chunks,
                               n_cells_used, n_samples_per_cell, n_samples_overall,
                               filter_call>>
           ELSE IF Len(restricted) = 0
           THEN /\ de_ret' = empty_array
                /\ de_pc' = "done"
                /\ indices_' = restricted
                /\ UNCHANGED <<indices, np_random, effective, cell_chunks,
                               n_cells_used, n_samples_per_cell, n_samples_overall,
                               filter_call>>
           ELSE \E fit \in (IF args.filter_cells THEN FitOutcomes(Len(restricted))
                            ELSE {no_fit}) :
                LET filtered == IF args.filter_cells THEN filter_cells(restricted, fit)
                                ELSE restricted
                    n_cells == Len(filtered)
                    n_cell_chunks == ceil(n_cells, args.n_cells_per_chunk)
                    shuffled == shuffle(filtered)
                    chunks == first(array_split(shuffled, n_cell_chunks), args.max_chunks)
                    used == Len(concatenate(chunks))
                    per_cell == IF args.n_samples_overall # <<>>
                                THEN 1 + ceil(args.n_samples_overall[1], used)
                                ELSE args.n_samples
                IN  /\ filter_call' = IF args.filter_cells
                                       THEN <<[indices |-> restricted, fit |-> fit,
                                               returned |-> filtered]>>
                                       ELSE <<>>
                    /\ effective' = filtered
                    /\ indices_' = shuffled
                    \* indices_ is the caller's array unless an indexing copied it
                    /\ indices' = IF restrict \/ args.filter_cells THEN indices
                                   ELSE shuffled
                    /\ np_random' = "seed(0), shuffle"
                    /\ cell_chunks' = chunks
                    /\ n_cells_used' = used
                    /\ n_samples_overall' = IF args.n_samples_overall # <<>>
                                             THEN args.n_samples_overall
                                             ELSE <<per_cell * used>>
                    /\ n_samples_per_cell' = IF per_cell < 100 THEN per_cell ELSE 100
                    /\ de_pc' = "inference"
                    /\ UNCHANGED de_ret
    /\ UNCHANGED <<args, observed_batches, np_random_at_call, res, treeVars,
                   combineVars, inferenceVars>>

\* lines 233-246: _inference_loop on the next chunk; hs_weighted has one
\* row for each sample of each cell of the chunk
inference_loop ==
    /\ de_pc = "inference"
    /\ Len(res) < Len(cell_chunks)
    /\ LET chunk == cell_chunks[Len(res) + 1]
       IN  res' = Append(res, [indices |-> chunk, rows |-> Len(chunk) * n_samples_per_cell])
    /\ UNCHANGED <<indices, args, observed_batches, np_random, np_random_at_call,
                   de_pc, effective, indices_, cell_chunks, n_cells_used,
                   n_samples_per_cell, n_samples_overall, de_ret, filter_call,
                   treeVars, combineVars, inferenceVars>>

\* the rows of the blocks before block c in np.concatenate(res, 0)
RECURSIVE rows_before(_, _)
rows_before(blocks, c) ==
    IF c = 1 THEN 0 ELSE rows_before(blocks, c - 1) + blocks[c - 1].rows

\* a result that is all the rows of res, with no draw
size_len_res(n_overall, len_res) == len_res

\* np.random.choice(idx, size=n_samples_overall, replace=True), line 249:
\* the number of entries drawn, and the values an entry can take whatever
\* the other entries are
size(n_overall, len_res) == n_overall
choice(n) == 1..n

\* lines 247-251: the rows drawn with replacement from those of all chunks.
\* One row of the result is followed to where it comes from: it is
\* res[idx] for the idx drawn for its position, row at of the block of
\* some chunk, which line 375 took from row windices[at] of the chunk's hs.
resample ==
    /\ de_pc = "inference"
    /\ Len(res) = Len(cell_chunks)
    /\ LET len_res == rows_before(res, Len(res) + 1)
           n_rows == size(n_samples_overall[1], len_res)
       IN  IF n_rows = 0
           THEN de_ret' = empty_array
           ELSE \E idx \in choice(len_res) :
                    LET chunk == CHOOSE c \in 1..Len(res) :
                                     /\ rows_before(res, c) < idx
                                     /\ idx <= rows_before(res, c + 1)
                    IN  \E windex \in 1..res[chunk].rows :
                            de_ret' = [kind |-> "array", rows |-> n_rows,
                                       row |-> <<[idx |-> idx, chunk |-> chunk,
                                                  at |-> idx - rows_before(res, chunk),
                                                  hs |-> windex]>>]
    /\ np_random' = "seed(0), shuffle, choice"
    /\ de_pc' = "done"
    /\ UNCHANGED <<indices, args, observed_batches, np_random_at_call, effective,
                   indices_, cell_chunks, n_cells_used, n_samples_per_cell,
                   n_samples_overall, res, filter_call, treeVars, combineVars,
                   inferenceVars>>

NextDE ==
    \/ get_population_expression
    \/ inference_loop
    \/ resample

(***************************************************************************)
(* DEMixin._inference_loop, lines 351-378, on the samples of one chunk.    *)
(* A log density or log weight is the record [log_of |-> r] of the         *)
(* positive rational r it is the logarithm of.                             *)
(***************************************************************************)
Log(r) == [log_of |-> r]
exp(x) == x.log_of
\* x - y
log_minus(x, y) == Log(RDiv(exp(x), exp(y)))

RECURSIVE RMax(_)
RMax(s) ==
    IF Len(s) = 1 THEN s[1]
    ELSE LET m == RMax(Tail(s))
         IN  IF s[1][1] * m[2] >= m[1] * s[1][2] THEN s[1] ELSE m

\* the logarithm of the largest term alone
logmaxexp(v) == Log(RMax([i \in 1..Len(v) |-> exp(v[i])]))

\* torch.logsumexp(v, 0)
logsumexp(v) == Log(RSum([i \in 1..Len(v) |-> exp(v[i])]))

\* the values a log importance weight is drawn from
Weights == {Log(Rat(1, MaxWeight))} \cup {Log(IntRat(w)) : w \in 1..MaxWeight}

InitInferenceWith(n, weight) ==
    /\ hs = [i \in 1..n |-> 100 + i]
    /\ importance_weight = weight
    /\ log_probs = <<>>
    /\ ws = <<>>
    /\ windices = <<>>
    /\ hs_weighted = <<>>
    /\ il_pc = "weighted"

InitInference ==
    \E n \in 1..MaxRows : \E weight \in [1..n -> Weights] : InitInferenceWith(n, weight)

\* lines 359-360
normalize ==
    /\ il_pc = "weighted"
    /\ log_probs' = [i \in 1..Len(importance_weight) |->
                        log_minus(importance_weight[i], logsumexp(importance_weight))]
    /\ ws' = [i \in 1..Len(importance_weight) |-> exp(log_probs'[i])]
    /\ il_pc' = "normalized"
    /\ UNCHANGED <<hs, importance_weight, windices, hs_weighted, treeVars, combineVars,
                   populationVars>>

\* lines 361-378: Categorical(logits=log_probs) draws n_samples_overall
\* times, each time an index of positive probability
sample ==
    /\ il_pc = "normalized"
    /\ LET n_samples_overall_ == Len(ws)
       IN  \E drawn \in [1..n_samples_overall_ -> {i \in 1..Len(ws) : ws[i] # RZero}] :
               /\ windices' = drawn
               /\ hs_weighted' = [j \in 1..n_samples_overall_ |-> hs[drawn[j]]]
    /\ il_pc' = "returned"
    /\ UNCHANGED <<hs, importance_weight, log_probs, ws, treeVars, combineVars,
                   populationVars>>

NextInference ==
    \/ normalize
    \/ sample

(***************************************************************************)
(* The specifications: the message passing engine on a tree, one node on   *)
(* its own, and get_population_expression.  Each leaves the state of the   *)
(* other two as it is.                                                     *)
(***************************************************************************)
vars == <<treeVars, combineVars, deVars>>

NoTree == InitTreeWith(<<prior_root>>)
NoCombine == InitCombineWith(2, [i \in 1..2 |-> RZero], [i \in 1..2 |-> VecZero(1)], 1)
NoDE == InitDEWith(0, 1, <<>>, FALSE, <<>>, <<>>, FALSE, "seed(1)")

NoInference == InitInferenceWith(1, <<Log(ROne)>>)

Init == InitTree /\ NoCombine /\ NoDE /\ NoInference
Next == NextTree
Spec == Init /\ [][Next]_vars

\* what a step of collect does to received: the invocation on top of the
\* stack has left its loop and runs to its return
returns ==
    /\ pc = "passing"
    /\ next_index(incident_nodes(top.node), top.i) > Len(incident_nodes(top.node))
    /\ received' = [received EXCEPT ![top.node] = Len(top.incoming_messages)]

\* a call of perform_message_passing runs on: Python executes the next
\* statement of the invocation on top of the call stack, be it the
\* recursive call of line 167 or the statements after the loop
SpecRunning == Init /\ [][Next]_vars /\ WF_vars(recurse) /\ WF_received(returns)

InitOneNode == InitCombine /\ NoTree /\ NoDE /\ NoInference
SpecCombine == InitOneNode /\ [][NextCombine]_vars

InitPopulation == InitDE /\ NoTree /\ NoCombine /\ NoInference
SpecDE == InitPopulation /\ [][NextDE]_vars

InitWeights == InitInference /\ NoTree /\ NoCombine /\ NoDE
SpecInference == InitWeights /\ [][NextInference]_vars


(***************************************************************************)
(* What a pass computes from freshly initialized messages, as a function   *)
(* of the tree and the evidence alone: the recursion follows the tree      *)
(* away from the node it came from, with no visited flags.                 *)
(***************************************************************************)
fresh_messages ==
    [nu |-> [n \in Nodes |-> RZero],
     mu |-> [n \in Nodes |-> n],
     tensors |-> [n \in Nodes |-> IF n \in Leaves THEN z[n] ELSE VecZero(n_latent)],
     log_z |-> [n \in Nodes |-> LZero]]

RECURSIVE fresh_loop(_, _, _, _, _, _)
fresh_loop(m, r, from, include_prior, i, inc) ==
    LET nodes == incident_nodes(r)
    IN  IF i > Len(nodes) THEN combine(m, r, inc)
        ELSE IF nodes[i] = from \/ (nodes[i] = prior_root /\ ~include_prior)
        THEN fresh_loop(m, r, from, include_prior, i + 1, inc)
        ELSE fresh_loop(fresh_loop(m, nodes[i], r, include_prior, 1, <<>>),
                        r, from, include_prior, i + 1, Append(inc, nodes[i]))

fresh_pass(r, include_prior) == fresh_loop(fresh_messages, r, r, include_prior, 1, <<>>)

RECURSIVE sum_log_z(_, _)
sum_log_z(lz, S) ==
    IF S = {} THEN LZero
    ELSE LET x == CHOOSE y \in S : TRUE
         IN  LAdd(lz[x], sum_log_z(lz, S \ {x}))

(***************************************************************************)
(* The claims.                                                             *)
(***************************************************************************)
\* C1: in a pass with include_prior=False that follows initialize_visit and
\* initialize_messages and starts at a node other than the prior root, the
\* prior root is never marked visited, never entered, and keeps the message
\* (nu, mu, log_z) = (0, 0, 0) that initialize_messages gave it.
PriorExcluded ==
    /\ op.name \in {"forward", "perform_message_passing"}
    /\ ~op.include_prior
    /\ op.start # prior_root
    /\ pc \in {"passing", "aggregate", "return", "idle"}

C1_PriorRootUntouched ==
    PriorExcluded =>
        /\ ~visited[prior_root]
        /\ entered[prior_root] = 0
        /\ nu[prior_root] = RZero
        /\ mu[prior_root] = prior_root
        /\ Mu(prior_root) = VecZero(n_latent)
        /\ log_z[prior_root] = LZero

\* a prior-excluded pass from a leaf below the biological root has
\* completed: every node but the prior root is visited
C1_Witness ==
    /\ PriorExcluded
    /\ pc = "return"
    /\ op.start # root
    /\ is_leaf(op.start)
    /\ \A n \in Nodes \ {prior_root} : visited[n]

\* C2: when perform_message_passing processes a node r that received exactly
\* one incoming message, from k, then r ends with nu = k's nu + 1.0, mu =
\* k's mu and log_z = 0, and k's nu and mu are unchanged, whatever r's
\* message was before.
C2_PassThrough ==
    [][(pc = "passing" /\ last'.act = "collect" /\ last'.n = 1) =>
         LET r == top.node
             k == top.incoming_messages[1]
         IN  /\ nu'[r] = RAdd(nu[k], ROne)
             /\ tensors'[mu'[r]] = Mu(k)
             /\ log_z'[r] = LZero
             /\ nu'[k] = nu[k]
             /\ tensors'[mu'[k]] = Mu(k)]_vars

\* a node with one incoming message was processed in a pass that did not
\* initialize the messages, and before that it had nu # 0 and log_z # 0
C2_Witness ==
    /\ last.act = "collect"
    /\ last.n = 1
    /\ last.stale
    /\ ~op.evidence
    /\ op.name = "posterior_predictive_density"
    /\ log_z[last.node] = LZero
    /\ ~IsHuge(nu[last.node])

\* C4: aggregate_messages_into_leaves_likelihood with add_prior=False
\* returns the sum of log_z over all the nodes of the tree, the prior root
\* included, and summing along any other order of the nodes gives the same:
\* whichever node of a set of nodes is added last, after the others in any
\* order, the sum over the set is the same.
C4_AggregateIsSum ==
    (ret.kind = "aggregate" /\ ~op.add_prior) =>
        /\ ret.val = sum_log_z(log_z, Nodes)
        /\ \A S \in SUBSET Nodes : \A x \in S :
               LAdd(sum_log_z(log_z, S \ {x}), log_z[x]) = sum_log_z(log_z, S)

\* the sum is taken over messages with two nodes of log_z # 0
C4_Witness ==
    /\ ret.kind = "aggregate"
    /\ ~op.add_prior
    /\ Cardinality({n \in Nodes : log_z[n] # LZero}) >= 2
    /\ ~IsHuge(ret.val.q)

\* C5: in a traversal that follows initialize_visit, perform_message_passing
\* is entered at most once for any node, and a completed pass with
\* include_prior=True, from any start node, has entered every node of the
\* tree exactly once, the prior root included.
C5_EachNodeOnce ==
    /\ \A n \in Nodes : entered[n] <= 1
    /\ \A n \in Nodes : (entered[n] = 1) = visited[n]
    /\ (pc = "return" /\ op.include_prior) => \A n \in Nodes : entered[n] = 1

\* a pass with the prior included, from a leaf of a tree with a branching
\* node, has completed
C5_Witness ==
    /\ pc = "return"
    /\ op.include_prior
    /\ is_leaf(op.start)
    /\ \E n \in Nodes : Len(children(n)) >= 2
    /\ \A n \in Nodes : entered[n] = 1

\* C6: the mp_lik that forward returns is the same on every repetition and
\* is a function of the tree and the leaf evidence alone: it is what the
\* pass from the biological root, the prior excluded, computes from freshly
\* initialized messages, whatever an earlier call left on the tree.
C6_ForwardDeterministic ==
    /\ \A i, j \in DOMAIN loss.MP_lik : loss.MP_lik[i] = loss.MP_lik[j]
    /\ ret.kind = "forward" =>
         ret.val = aggregate_over(fresh_pass(root, FALSE), traverse, op.add_prior)

\* forward has returned for the second time, on a tree that carried the
\* messages of the first, and a node with two or more incoming messages
\* took part
C6_Witness ==
    /\ ret.kind = "forward"
    /\ calls = 2
    /\ Len(loss.MP_lik) = 2
    /\ \E n \in Nodes : log_z[n] # LZero
    /\ ~IsHuge(ret.val.q)

\* C7: posterior_predictive_density returns the (mu, nu) that the pass
\* from query_node, the prior included, computes from freshly initialized
\* messages, whether evidence is supplied or omitted.
C7_PosteriorFromFreshMessages ==
    ret.kind = "posterior_predictive_density" =>
        LET m == fresh_pass(op.start, TRUE)
        IN  ret.val = <<m.tensors[m.mu[op.start]], m.nu[op.start]>>

\* C8: after initialize_messages every node has nu = 0 and log_z = 0, each
\* leaf has mu = its row of the evidence, and the prior root and the other
\* internal nodes have mu = the zero vector of length d, whatever the
\* messages were before.
C8_MessagesReset ==
    last.act = "initialize_messages" =>
        \A n \in Nodes :
            /\ nu[n] = RZero
            /\ log_z[n] = LZero
            /\ Len(Mu(n)) = n_latent
            /\ n \in Leaves => Mu(n) = z[n]
            /\ n \notin Leaves => Mu(n) = VecZero(n_latent)

\* initialize_messages has run in the second call, on a tree that has a
\* branching node, after a forward that passed messages
C8_Witness ==
    /\ last.act = "initialize_messages"
    /\ calls = 2
    /\ Len(loss.MP_lik) = 1
    /\ \E n \in Nodes : Len(children(n)) >= 2
    /\ \A n \in Nodes : visited[n] = FALSE

\* C9 as claimed: the mp_lik that forward returns is the aggregate of the
\* prior-excluded pass with no prior contribution added.
C9_NoPriorContribution ==
    ret.kind = "forward" => ret.val = sum_log_z(log_z, Nodes)

\* C9 as amended: forward's pass starts at the biological root with
\* include_prior=False and never visits the prior root, and the mp_lik it
\* returns is the sum of log_z over all nodes plus the closed-form
\* contribution of merging the root's belief with the standard-normal prior.
C9_PriorAddedInClosedForm ==
    /\ (op.name = "forward" /\ pc \in {"passing", "aggregate", "idle"}) =>
         (op.start = root /\ ~op.include_prior /\ ~visited[prior_root])
    /\ ret.kind = "forward" =>
         ret.val = LAdd(sum_log_z(log_z, Nodes), prior_term(messages))

\* forward has returned an mp_lik whose prior contribution is not 0
C9_Witness ==
    /\ ret.kind = "forward"
    /\ prior_term(messages).q # RZero
    /\ ret.val # sum_log_z(log_z, Nodes)


\* C3: a node with exactly two incoming messages, of means mu1, mu2 and
\* c1 = nu1 + 1, c2 = nu2 + 1, gets log_z = -0.5*d*log(2*pi) -
\* 0.5*d*log(t) - 0.5*S/t with t = c1 + c2 and S = ||mu1 - mu2||^2 counted
\* once, for all integer means and nu.
C3_TwoMessages ==
    (applied /\ Len(incoming_messages(given)) = 2) =>
        LET c1 == RAdd(given.nu[1], ROne)
            c2 == RAdd(given.nu[2], ROne)
            t == RAdd(c1, c2)
            S == SqDist(given.tensors[1], given.tensors[2])
        IN  result.log_z[0] = [k |-> 1, t |-> t, q |-> RDiv(S, t)]

\* the reference case d = 2, mu1 = [0, 0], mu2 = [1, 1], with nu1 = nu2 = 0:
\* t = 2, S = 2 and log_z = -0.5*2*log(2*pi) - 0.5*2*log(2) - 0.5*1
C3_Witness ==
    /\ applied
    /\ Len(incoming_messages(given)) = 2
    /\ given.nu[1] = RZero /\ given.nu[2] = RZero
    /\ given.tensors[1] = <<RZero, RZero>>
    /\ given.tensors[2] = <<ROne, ROne>>
    /\ result.log_z[0] = [k |-> 1, t |-> IntRat(2), q |-> ROne]

\* C10: for N >= 1 cells, n_cells_per_chunk = k >= 1 and max_chunks unset,
\* get_population_expression splits the shuffled indices into exactly
\* ceil(N/k) chunks, which concatenated in order are the shuffled indices:
\* every index of the subpopulation exactly once.
C10_ChunksPartition ==
    (de_pc \in {"inference", "done"} /\ de_ret # ValueError /\ de_ret # empty_array
        /\ args.max_chunks = <<>>) =>
        LET N == Len(effective)
            k == args.n_cells_per_chunk
        IN  /\ N >= 1
            /\ Len(cell_chunks) * k >= N
            /\ (Len(cell_chunks) - 1) * k < N
            /\ concatenate(cell_chunks) = indices_
            /\ Len(indices_) = N
            /\ \A c \in {effective[i] : i \in 1..N} :
                   Cardinality({i \in 1..N : indices_[i] = c}) = 1
            /\ \A i \in 1..N : \E j \in 1..N : indices_[i] = effective[j]

\* five cells in chunks of at most two: three chunks, the last of one cell,
\* of indices that the shuffle has put in another order
C10_Witness ==
    /\ de_pc = "inference"
    /\ args.max_chunks = <<>>
    /\ args.n_cells_per_chunk = 2
    /\ Len(effective) = 5
    /\ Len(cell_chunks) = 3
    /\ Len(cell_chunks[3]) = 1
    /\ indices_ # effective
    /\ concatenate(cell_chunks) = indices_

\* C11: when the covariance fit inside filter_cells raises ValueError,
\* filter_cells raises nothing: it returns all the cells it was given, in
\* the order it was given them, and the call goes on with them.
C11_FitErrorKeepsAll ==
    (filter_call # <<>> /\ filter_call[1].fit[1]) =>
        /\ filter_call[1].returned = filter_call[1].indices
        /\ effective = filter_call[1].indices
        /\ de_ret.kind # "ValueError"

C11_Witness ==
    /\ filter_call # <<>>
    /\ filter_call[1].fit[1]
    /\ Len(filter_call[1].indices) >= 3
    /\ de_ret.kind = "array"
    /\ de_ret.rows > 0

\* C12: filter_cells never drops everything: when the fit marks at most one
\* cell as an inlier it returns all the cells it was given; what it returns
\* has at least two cells or is the whole input, and is always a selection
\* of the input in the input's order (the cells of an input are distinct).
C12_NeverDropsAll ==
    filter_call # <<>> =>
        LET input == filter_call[1].indices
            returned == filter_call[1].returned
            fit == filter_call[1].fit
            inliers == {i \in 1..Len(input) : fit[2][i]}
            kept == {returned[i] : i \in 1..Len(returned)}
        IN  /\ input # <<>>
            /\ (~fit[1] /\ Cardinality(inliers) <= 1) => returned = input
            /\ Len(returned) >= 2 \/ returned = input
            /\ returned = select(input, [i \in 1..Len(input) |-> input[i] \in kept])

C12_Witness ==
    /\ filter_call # <<>>
    /\ ~filter_call[1].fit[1]
    /\ Cardinality({i \in 1..Len(filter_call[1].indices) : filter_call[1].fit[2][i]}) = 1
    /\ Len(filter_call[1].indices) >= 3
    /\ filter_call[1].returned = filter_call[1].indices
    /\ de_ret.kind = "array"

\* C13: when transform_batch is given, get_population_expression goes on
\* with exactly the supplied indices whose observed batch is the requested
\* batch code, in their order; when the indices and the observed batches
\* differ in shape it raises ValueError and neither the filter nor the
\* inference (nor the shuffle before it) has run.
C13_BatchRestriction ==
    (args.transform_batch # <<>> /\ de_pc # "called") =>
        IF Len(indices) # Len(observed_batches)
        THEN /\ de_ret = ValueError
             /\ de_pc = "done"
             /\ filter_call = <<>>
             /\ res = <<>>
             /\ cell_chunks = <<>>
             /\ np_random \in {"seed(0)", "seed(1)"}
        ELSE LET passed == IF de_ret = empty_array THEN indices_
                           ELSE IF filter_call # <<>> THEN filter_call[1].indices
                           ELSE effective
                 kept == {passed[i] : i \in 1..Len(passed)}
             IN  /\ de_ret.kind # "ValueError"
                 /\ \A i \in 1..Len(indices) :
                        indices[i] \in kept <=> observed_batches[i] = args.transform_batch[1]
                 /\ passed = select(indices, [i \in 1..Len(indices) |-> indices[i] \in kept])

C13_Witness ==
    /\ args.transform_batch = <<1>>
    /\ Len(indices) = 5
    /\ Len(observed_batches) = 5
    /\ args.filter_cells
    /\ filter_call # <<>>
    /\ filter_call[1].indices = <<cell(1), cell(3), cell(5)>>
    /\ de_ret.kind = "array"
    /\ de_ret.rows > 0

C13_WitnessDiscrepancy ==
    /\ args.transform_batch # <<>>
    /\ args.filter_cells
    /\ Len(indices) = 3
    /\ Len(observed_batches) = 2
    /\ de_ret = ValueError

\* C14: on any chunk the importance weights of _inference_loop are
\* normalized before the categorical resampling: the entries of
\* exp(log_probs) are non-negative and sum to 1.
C14_WeightsNormalized ==
    il_pc \in {"normalized", "returned"} =>
        /\ Len(ws) = Len(importance_weight)
        /\ \A i \in 1..Len(ws) : ws[i] = exp(log_probs[i]) /\ ws[i][1] >= 0 /\ ws[i][2] > 0
        /\ RSum(ws) = ROne

C14_Witness ==
    /\ il_pc = "normalized"
    /\ windices = <<>>
    /\ Len(ws) = 3
    /\ ws[1] # ws[2]
    /\ ws[2] # ws[3]
    /\ ws[1] # ws[3]

\* C15: on a non-empty effective index set get_population_expression
\* returns exactly n_samples_overall rows, the supplied value or n_samples
\* times the number of cells used; every row is a row of the block
\* hs_weighted of some chunk, which is a row of that chunk's hs (one row
\* for each of the n_samples_per_cell samples of each cell of the chunk).
C15_ResampledRows ==
    (de_pc = "done" /\ effective # <<>>) =>
        /\ de_ret.kind = "array"
        /\ de_ret.rows = IF args.n_samples_overall # <<>> THEN args.n_samples_overall[1]
                         ELSE args.n_samples * n_cells_used
        /\ n_cells_used = Len(concatenate(cell_chunks))
        /\ de_ret.rows > 0 => de_ret.row # <<>>
        /\ \A i \in 1..Len(de_ret.row) :
               LET r == de_ret.row[i]
               IN  /\ r.chunk \in 1..Len(cell_chunks)
                   /\ res[r.chunk].indices = cell_chunks[r.chunk]
                   /\ r.at \in 1..res[r.chunk].rows
                   /\ r.hs \in 1..(Len(cell_chunks[r.chunk]) * n_samples_per_cell)

C15_Witness ==
    /\ de_pc = "done"
    /\ Len(effective) = 5
    /\ args.n_samples_overall = <<>>
    /\ de_ret.rows = 10
    /\ Len(cell_chunks) = 2
    /\ de_ret.row # <<>>
    /\ de_ret.row[1].chunk = 2
    /\ de_ret.row[1].at = 1
    /\ de_ret.row[1].hs = 4

\* the sum, over the pairs (j, h), j # h, of incoming messages (ordered
\* pairs, or each pair once), of the product of children_nu without j and h
\* times ||mu_j - mu_h||^2
pairwise_sum(m, ordered) ==
    LET inc == incoming_messages(m)
        n == Len(inc)
        children_nu == [i \in 1..n |-> RAdd(m.nu[inc[i]], edge_length)]
    IN  RSum([p \in 1..(n * n) |->
                LET j == ((p - 1) \div n) + 1
                    h == ((p - 1) % n) + 1
                IN  IF j < h \/ (ordered /\ j > h)
                    THEN RMul(product_without(children_nu, {j, h}),
                              SqDist(m.tensors[m.mu[inc[j]]], m.tensors[m.mu[inc[h]]]))
                    ELSE RZero])

\* C16: for a node with n >= 2 incoming messages, what
\* perform_message_passing accumulates into Z_3 before the scaling by
\* -0.5/t is the sum over all the ordered pairs (j, h), j # h, of the
\* product of children_nu without j and h times ||mu_j - mu_h||^2.
C16_Z3OverOrderedPairs ==
    applied =>
        result.log_z[0].q = RDiv(pairwise_sum(given, TRUE), result.log_z[0].t)

\* the same with every pair counted once, which is what the loop gives for
\* two messages; it fails with three
C16_Z3OverPairsOnce ==
    applied =>
        result.log_z[0].q = RDiv(pairwise_sum(given, FALSE), result.log_z[0].t)

\* C17: a node zeroed by initialize_messages that receives n >= 2 messages
\* (nu_i, mu_i) is left with nu = 1 / sum_i 1/(nu_i + 1) and with
\* mu = nu * sum_i mu_i/(nu_i + 1), the precision-weighted mean; the nu and
\* mu of the incoming nodes are as they were.
C17_PrecisionWeightedMean ==
    applied =>
        LET inc == incoming_messages(given)
            n == Len(inc)
            d == Len(given.tensors[given.mu[0]])
            precision == [i \in 1..n |-> RInv(RAdd(given.nu[inc[i]], ROne))]
            nu_parent == RInv(RSum(precision))
            weighted(c) == RSum([i \in 1..n |->
                                   RMul(given.tensors[given.mu[inc[i]]][c], precision[i])])
        IN  /\ n >= 2
            /\ result.nu[0] = nu_parent
            /\ result.tensors[result.mu[0]] = [c \in 1..d |-> RMul(nu_parent, weighted(c))]
            /\ \A i \in 1..n :
                   /\ result.nu[inc[i]] = given.nu[inc[i]]
                   /\ result.mu[inc[i]] = given.mu[inc[i]]
                   /\ result.tensors[result.mu[inc[i]]] = given.tensors[given.mu[inc[i]]]

\* three messages with nu = (0, 1, 1), mu = ([1], [1], [0]): the precisions
\* are 1, 1/2, 1/2, so nu = 1/2 and mu = (1/2) * (1 + 1/2) = 3/4
C17_Witness ==
    /\ applied
    /\ Len(incoming_messages(given)) = 3
    /\ given.nu[1] = RZero /\ given.nu[2] = ROne /\ given.nu[3] = ROne
    /\ given.tensors[1] = <<ROne>> /\ given.tensors[2] = <<ROne>>
    /\ given.tensors[3] = <<RZero>>
    /\ result.nu[0] = Rat(1, 2)
    /\ result.tensors[result.mu[0]] = <<Rat(3, 4)>>

\* the message of node x as the node holds it
message(x) == <<nu[x], Mu(x), log_z[x]>>

\* C18: during a pass the message (nu, mu, log_z) of a node is written only
\* inside that node's own perform_message_passing invocation, when the
\* invocations on its incoming neighbours have returned (the step collect
\* of the node on top of the stack), hence once per pass and never after
\* its own invocation has returned.
C18_WrittenInOwnInvocationOnly ==
    [][pc = "passing" =>
          \A x \in Nodes :
              message(x)' # message(x) =>
                  /\ x = top.node
                  /\ next_index(incident_nodes(x), top.i) > Len(incident_nodes(x))]_vars

\* C19: a node that receives no incoming message during a pass is left as
\* initialize_messages set it: after the pass it has nu = 0, log_z = 0 and
\* the mu of initialize_messages, which for an observed leaf is its
\* evidence.
C19_NoIncomingNoOp ==
    pc \in {"aggregate", "return"} =>
        \A x \in Nodes :
            received[x] = 0 =>
                /\ nu[x] = init_nu(x, z)
                /\ log_z[x] = init_log_z(x, z)
                /\ Mu(x) = init_mu(x, z, n_latent)
                /\ x \in Leaves => Mu(x) = z[x]

\* C20: initialize_visit leaves visited = False on every node, the prior
\* root included, whatever the flags were; and when forward or
\* posterior_predictive_density issues its top-level
\* perform_message_passing, initialize_visit has run in the same call and
\* no invocation of the pass has been entered since.
C20_VisitResetBeforePass ==
    /\ last.act = "initialize_visit" => \A n \in Nodes : ~visited[n]
    /\ (pc = "perform_message_passing"
            /\ op.name \in {"forward", "posterior_predictive_density"}) =>
           /\ last.act \in {"initialize_visit", "initialize_messages"}
           /\ \A n \in Nodes : ~visited[n] /\ entered[n] = 0
    /\ (pc = "passing" /\ last.act = "enter" /\ Len(stack) = 1
            /\ op.name \in {"forward", "posterior_predictive_density"}) =>
           \A n \in Nodes : /\ visited[n] = (n = op.start)
                            /\ entered[n] = IF n = op.start THEN 1 ELSE 0

\* the second call, a posterior_predictive_density without evidence that
\* follows a forward on a tree with two leaves or more, about to pass
C20_Witness ==
    /\ calls = 2
    /\ Len(loss.MP_lik) = 1
    /\ op.name = "posterior_predictive_density"
    /\ ~op.evidence
    /\ Cardinality(Nodes) >= 4
    /\ pc = "perform_message_passing"
    /\ last.act = "initialize_visit"
    /\ \A n \in Nodes : ~visited[n]

\* C21: a forward call appends exactly one entry to each of the lists
\* loss['Reconstruction'], loss['MP_lik'] and loss['Gaussian pdf'], and no
\* other step changes them: the lists only grow, one entry per forward.
C21_LossListsGrow ==
    [][LET appended(name) ==
               /\ Len(loss'[name]) = Len(loss[name]) + 1
               /\ SubSeq(loss'[name], 1, Len(loss[name])) = loss[name]
       IN  IF op.name = "forward" /\ pc = "aggregate"
           THEN \A name \in DOMAIN loss : appended(name)
           ELSE loss' = loss]_vars

\* the lists have one entry for each forward that has returned
C21_Witness ==
    /\ calls = 2
    /\ pc = "idle"
    /\ ret.kind = "forward"
    /\ \A name \in DOMAIN loss : Len(loss[name]) = 2

\* C22: for N >= 1 cells and a chunk bound n_cells_per_chunk = k >= 1,
\* every chunk of get_population_expression has at least one cell and at
\* most k cells.
C22_ChunkSizes ==
    (de_pc \in {"inference", "done"} /\ effective # <<>>) =>
        /\ cell_chunks # <<>>
        /\ \A c \in 1..Len(cell_chunks) :
               /\ Len(cell_chunks[c]) >= 1
               /\ Len(cell_chunks[c]) <= args.n_cells_per_chunk

\* four cells with k = 3: two chunks of two cells, not one of three and one
\* of one
C22_Witness ==
    /\ de_pc = "inference"
    /\ args.n_cells_per_chunk = 3
    /\ args.max_chunks = <<>>
    /\ Len(effective) = 4
    /\ Len(cell_chunks) = 2
    /\ Len(cell_chunks[1]) = 2
    /\ Len(cell_chunks[2]) = 2

\* C23: with max_chunks = m >= 1, get_population_expression runs
\* _inference_loop on exactly min(m, ceil(N/k)) chunks, the first ones of
\* the split of the shuffled indices, in their order, and n_cells_used,
\* from which the sample counts are taken, is the number of cells of those
\* chunks.
C23_MaxChunks ==
    (de_pc = "done" /\ effective # <<>> /\ args.max_chunks # <<>>) =>
        LET m == args.max_chunks[1]
            N == Len(effective)
            n_cell_chunks == ceil(N, args.n_cells_per_chunk)
            processed == IF m < n_cell_chunks THEN m ELSE n_cell_chunks
            split == array_split(indices_, n_cell_chunks)
        IN  /\ Len(res) = processed
            /\ \A c \in 1..processed : res[c].indices = split[c]
            /\ n_cells_used = Len(concatenate([c \in 1..processed |-> split[c]]))
            /\ n_samples_per_cell = IF args.n_samples_overall = <<>> THEN args.n_samples
                                    ELSE 1 + ceil(args.n_samples_overall[1], n_cells_used)
            /\ n_samples_overall = IF args.n_samples_overall = <<>>
                                   THEN <<args.n_samples * n_cells_used>>
                                   ELSE args.n_samples_overall

\* five cells, k = 2, max_chunks = 2: the first two of three chunks, four
\* cells used, and 2 * 4 rows
C23_Witness ==
    /\ de_pc = "done"
    /\ args.max_chunks = <<2>>
    /\ args.n_cells_per_chunk = 2
    /\ args.n_samples_overall = <<>>
    /\ Len(effective) = 5
    /\ Len(res) = 2
    /\ n_cells_used = 4
    /\ de_ret.rows = 8

\* C24: perform_message_passing sorts the number n of incoming messages
\* of a node into the cases 0, 1 and n >= 2; the remaining branch raises
\* NotImplementedError, which the engine does not catch, and no pass on
\* any tree reaches it, whatever the number of messages a node receives.
C24_NeverNotImplemented ==
    /\ ret.kind # "NotImplementedError"
    /\ last.act = "collect" =>
           /\ last.n = received[last.node]
           /\ branch(last.n) \in {"return", "pass", "combine"}
           /\ (branch(last.n) = "combine") = (last.n >= 2)

\* a node that has combined three incoming messages
C24_Witness ==
    /\ last.act = "collect"
    /\ last.n = 3
    /\ pc \in {"passing", "aggregate", "return"}
    /\ log_z[last.node].k = 2

\* C25: the shuffled order and the chunks are a function of the effective
\* index array, n_cells_per_chunk and max_chunks alone: line 219 seeds the
\* global generator with 0 right before the shuffle of line 220, so the
\* state the generator had when the call began has no part in them.
C25_ChunksDeterministic ==
    (de_pc \in {"inference", "done"} /\ effective # <<>>) =>
        LET n == Len(effective)
            order == [i \in 1..n |-> effective[shuffled_arange[n][i] + 1]]
            split == array_split(order, ceil(n, args.n_cells_per_chunk))
        IN  /\ indices_ = order
            /\ cell_chunks = IF args.max_chunks = <<>> THEN split
                             ELSE SubSeq(split, 1, IF args.max_chunks[1] < Len(split)
                                                   THEN args.max_chunks[1]
                                                   ELSE Len(split))
            /\ np_random \in {"seed(0), shuffle", "seed(0), shuffle, choice"}

\* a call that found the generator in another state than seed(0) leaves,
\* and whose five cells are in the order a generator seeded with 0 gives
C25_Witness ==
    /\ de_pc = "done"
    /\ np_random_at_call = "seed(1)"
    /\ effective = <<11, 12, 13, 14, 15>>
    /\ indices_ = <<13, 11, 12, 14, 15>>
    /\ args.n_cells_per_chunk = 2
    /\ args.max_chunks = <<2>>
    /\ cell_chunks = << <<13, 11>>, <<12, 14>> >>

\* the orders in which n incoming messages can be listed
orders(n) == {p \in [1..n -> 1..n] : \A i, j \in 1..n : p[i] = p[j] => i = j}

\* C26: the log_z of a node with n >= 2 incoming messages is the same in
\* whatever order the incoming messages are listed: t, the pairwise Z_3
\* term and with them log_z are unchanged when the list is permuted, for
\* n = 3 as for every n >= 2.
C26_LogZOrderFree ==
    applied =>
        \A p \in orders(Len(incoming_messages(given))) :
            combine(given, 0, p).log_z[0] = result.log_z[0]

\* the part that does hold: t and the Z_1 term are those of any order,
\* and for two messages so is the whole of log_z
C26_TOrderFree ==
    applied =>
        \A p \in orders(Len(incoming_messages(given))) :
            LET other == combine(given, 0, p).log_z[0]
            IN  /\ other.t = result.log_z[0].t
                /\ other.k = result.log_z[0].k
                /\ Len(p) = 2 => other = result.log_z[0]

\* the invocations of perform_message_passing since initialize_visit
invocations ==
    LET RECURSIVE total(_)
        total(s) == IF s = <<>> THEN 0 ELSE entered[s[1]] + total(Tail(s))
    IN  total(SortedSeq(Nodes))

\* C27: on a finite tree a pass of perform_message_passing that starts at
\* any node after initialize_visit terminates: every recursive invocation
\* is on a node that was not visited and marks it visited before it
\* recurses, so there are at most as many invocations as nodes and the
\* recursion is at most as deep as there are nodes.
C27_PassTerminates ==
    /\ [](pc = "passing" =>
            /\ invocations <= Cardinality(Nodes)
            /\ Len(stack) <= invocations
            /\ \A i \in 1..Len(stack) : visited[stack[i].node]
            /\ \A i, j \in 1..Len(stack) : stack[i].node = stack[j].node => i = j)
    /\ [][Len(stack') > Len(stack) =>
            /\ Len(stack') = Len(stack) + 1
            /\ ~visited[stack'[Len(stack')].node]
            /\ visited'[stack'[Len(stack')].node]]_vars
    /\ [][<<returns>>_received <=> <<collect>>_vars]_vars
    /\ (pc = "passing") ~> (pc # "passing")

\* a pass from a leaf of a tree of five nodes, the prior root included, has
\* ended after an invocation on every node
C27_Witness ==
    /\ pc = "return"
    /\ Cardinality(Nodes) = 5
    /\ is_leaf(op.start)
    /\ invocations = 5
    /\ stack = <<>>

\* the array as the caller passed it
passed_indices == [i \in 1..Len(indices) |-> cell(i)]

\* C28: get_population_expression leaves the caller's indices array as it
\* was, the same cells in the same order, whether filter_cells is True or
\* False and whether transform_batch is given or None: only a private
\* copy is shuffled.
C28_CallerArrayUnchanged ==
    de_pc # "called" => indices = passed_indices

\* the part that does hold: the array is as it was when the boolean
\* indexing of line 197 or of filter_cells made a new one, and its cells
\* are the same in every case
C28_UnchangedWhenCopied ==
    de_pc # "called" =>
        /\ (args.transform_batch # <<>> \/ args.filter_cells) => indices = passed_indices
        /\ {indices[i] : i \in 1..Len(indices)} = {cell(i) : i \in 1..Len(indices)}
        /\ (args.transform_batch = <<>> /\ ~args.filter_cells) => indices = indices_

\* the effective index set is empty: no cell was passed, or none of the
\* cells passed is recorded in the requested batch
no_effective_cell ==
    IF args.transform_batch = <<>> THEN Len(indices) = 0
    ELSE /\ Len(indices) = Len(observed_batches)
         /\ \A i \in 1..Len(indices) : observed_batches[i] # args.transform_batch[1]

\* C29: when the effective index set is empty, get_population_expression
\* returns an empty array of 0 rows (and n_genes columns) and raises
\* nothing; filter_cells is not called, the generator is neither seeded
\* nor used for a shuffle, and _inference_loop runs on no chunk.
C29_EmptyReturnsEarly ==
    (de_pc # "called" /\ no_effective_cell) =>
        /\ de_pc = "done"
        /\ de_ret.kind = "array"
        /\ de_ret.rows = 0
        /\ de_ret.row = <<>>
        /\ filter_call = <<>>
        /\ np_random = np_random_at_call
        /\ indices = passed_indices
        /\ cell_chunks = <<>>
        /\ res = <<>>

\* a cell was passed with filter_cells=True that is not of the
\* requested batch, and the call has returned
C29_Witness ==
    /\ de_pc = "done"
    /\ Len(indices) = 1
    /\ args.transform_batch = <<0>>
    /\ Len(observed_batches) = 1
    /\ args.filter_cells
    /\ de_ret = empty_array
    /\ indices_ = <<>>

=============================================================================
